---- MODULE Spec2Model ----
(***************************************************************************)
(* Multi-GPU scheduler (GPUManager) and per-session streaming generation   *)
(* coordinator (VibeVoiceDemo.generate_podcast_streaming) of               *)
(* demo/gradio_demo_multigpu.py.                                           *)
(*                                                                         *)
(* Units.  Audio lengths are counted in samples, times in whole seconds.   *)
(* Memory is counted in GB units chosen so that memory_usage_percent is a  *)
(* whole number, and the load score is kept in tenths (score * 10) so that *)
(* the weights 10 / 0.5 / 0.3 stay exact integers.                         *)
(***************************************************************************)
EXTENDS Integers, Sequences, FiniteSets, TLC

----------------------------------------------------------------------------
(* Bounds of the model *)

MaxGpus == 2
    \* device ids are 0 .. MaxGpus-1 (torch.cuda.device_count())
MaxSessions == 2
    \* generate calls over the life of a run
MemTotal == 4
    \* total memory of a device that initialised, in GB
MaxQueueSeen == 1
    \* largest queue_length an initial registry snapshot may show
MaxChunks == 4
    \* chunks one generation thread produces at most
ChunkUnit == 240000
    \* chunk lengths are 1 or 2 units of this many samples (10 s at 24 kHz)
TimeStep == 5
    \* seconds the clock advances per tick
MaxTime == 20
    \* the clock stops advancing here
MaxRecoveries == 1
    \* recovery threads that may be asleep per device
PoolChunks == 1
    \* chunks per generation thread where sessions run concurrently
MaxRecoverTime == 30
    \* the clock stops advancing here where recovery threads sleep

(* Program constants *)

None == -1
sample_rate == 24000
min_yield_interval == 15
min_chunk_size == sample_rate * 30
recovery_delay == 30

GpuIds == 0 .. (MaxGpus - 1)
Sessions == 1 .. MaxSessions
UtilValues == {0, 50, 100}
RefreshReadings == {0, MemTotal} \X {0, 100}
MemValues == {0, MemTotal \div 2, MemTotal}
ChunkLens == {ChunkUnit, 2 * ChunkUnit}

----------------------------------------------------------------------------
VARIABLES
    target_gpus,    \* configured ids, in the order gpu_status was filled
    gpu_instances,  \* ids whose VibeVoiceDemo instance was created
    gpu_status,     \* id -> GPUStatus
    gpu_queues,     \* id -> qsize() of the pending-work queue
    gpu_healthy,    \* id -> whether the health-check operation succeeds now
    recovering,     \* id -> recover_gpu threads asleep for that fault
    recover_at,     \* id -> the times at which those threads wake up
    inst,           \* id -> the flags of the VibeVoiceDemo instance
    sess,           \* session -> the generators' local state
    streamer,       \* session -> AudioStreamer of that session
    thread,         \* session -> generation thread
    now,            \* time.time()
    summary_lines,  \* what get_gpu_status_summary returned last
    monitor_sleep,  \* seconds of the sleep the monitor thread entered last
    monitor_write,  \* the readings the monitor thread is writing, field by field
    stop_monitoring, \* the flag shutdown() sets
    monitor_pc,     \* where the monitor thread is in its while loop
    monitor_todo,   \* the devices the cycle in progress has still to refresh
    shutdown_at     \* history: where the monitor thread was when shutdown() ran

regvars == <<target_gpus, gpu_instances, gpu_status, gpu_queues, gpu_healthy,
             recovering, recover_at>>
sessvars == <<inst, sess, streamer, thread>>
loopvars == <<stop_monitoring, monitor_pc, monitor_todo, shutdown_at>>
auxvars == <<summary_lines, monitor_sleep, monitor_write, loopvars>>
vars == <<target_gpus, gpu_instances, gpu_status, gpu_queues, gpu_healthy,
          recovering, recover_at, inst, sess, streamer, thread, now,
          summary_lines, monitor_sleep, monitor_write, stop_monitoring,
          monitor_pc, monitor_todo, shutdown_at>>

----------------------------------------------------------------------------
(* Sequences helpers *)

RECURSIVE SumLen(_)
SumLen(chunks) ==
    IF chunks = <<>> THEN 0 ELSE Head(chunks).len + SumLen(Tail(chunks))

Range(s) == {s[i] : i \in DOMAIN s}

RECURSIVE Perms(_)
Perms(S) ==
    IF S = {} THEN {<<>>}
    ELSE UNION {{<<x>> \o p : p \in Perms(S \ {x})} : x \in S}

----------------------------------------------------------------------------
(* GPUStatus *)

GPUStatus(used, total, util, qlen, avail) ==
    [memory_used |-> used, memory_total |-> total, utilization |-> util,
     queue_length |-> qlen, is_available |-> avail]

\* the registry fields the health check does not write
Measurements(st) ==
    <<st.memory_used, st.memory_total, st.utilization, st.queue_length>>

\* a percentage with the ratio upside down
memory_usage_percent_Inverted(status) ==
    IF status.memory_used > 0
    THEN (status.memory_total * 100) \div status.memory_used
    ELSE 0

\* lines 55-57
memory_usage_percent(status) ==
    IF status.memory_total > 0
    THEN (status.memory_used * 100) \div status.memory_total
    ELSE 0

(* GPUManager._initialize_gpus: one registry entry per configured id;      *)
(* an id whose initialisation raised gets an unavailable entry with        *)
(* memory_total 0 and no instance, queue or lock.                          *)
InitialStatus(ok) ==
    IF ok THEN GPUStatus(0, MemTotal, 0, 0, TRUE)
    ELSE GPUStatus(0, 0, 0, 0, FALSE)

----------------------------------------------------------------------------
(* GPUManager.select_best_gpu *)

\* a scoring that forgets the memory term
Total_score10_NoMemory(status) ==
    status.queue_length * 100 + status.utilization * 3

Total_score10(status) ==
    status.queue_length * 100
    + memory_usage_percent(status) * 5
    + status.utilization * 3

AvailableSet(statuses) == {g \in DOMAIN statuses : statuses[g].is_available}

Available_gpus(order, statuses) ==
    SelectSeq(order, LAMBDA g : statuses[g].is_available)

\* a scan that lets a later device of equal score replace the best so far
RECURSIVE ScanBest_LastWins(_, _, _, _)
ScanBest_LastWins(available, statuses, best_gpu, best_score) ==
    IF available = <<>> THEN best_gpu
    ELSE LET g == Head(available)
             total == Total_score10(statuses[g])
         IN  IF best_gpu = None \/ total <= best_score
             THEN ScanBest_LastWins(Tail(available), statuses, g, total)
             ELSE ScanBest_LastWins(Tail(available), statuses, best_gpu, best_score)

\* the scan of lines 221-236: best_gpu = None stands for best_score = inf
RECURSIVE ScanBest(_, _, _, _)
ScanBest(available, statuses, best_gpu, best_score) ==
    IF available = <<>> THEN best_gpu
    ELSE LET g == Head(available)
             total == Total_score10(statuses[g])
         IN  IF best_gpu = None \/ total < best_score
             THEN ScanBest(Tail(available), statuses, g, total)
             ELSE ScanBest(Tail(available), statuses, best_gpu, best_score)

Best_gpu(available, statuses) ==
    LET best == ScanBest(available, statuses, None, 0)
    IN  IF best # None THEN best ELSE available[1]

\* a health check that passes every entry that has no instance to probe
Check_gpu_health_AllEntries(statuses, instances, healthy) ==
    [g \in DOMAIN statuses |->
        [statuses[g] EXCEPT !.is_available = (g \in instances => healthy[g])]]

\* a health check that also resets the queue length it finds
Check_gpu_health_ResetsQueue(statuses, instances, healthy) ==
    [g \in DOMAIN statuses |->
        IF g \in instances
        THEN [statuses[g] EXCEPT !.is_available = healthy[g], !.queue_length = 0]
        ELSE statuses[g]]

(* GPUManager._check_gpu_health: every device that has an instance is      *)
(* probed; the outcome of the probe overwrites is_available.               *)
Check_gpu_health(statuses, instances, healthy) ==
    [g \in DOMAIN statuses |->
        IF g \in instances
        THEN [statuses[g] EXCEPT !.is_available = healthy[g]]
        ELSE statuses[g]]

\* a selection that re-probes on every call
StatusAfterSelect_Always(order, statuses, instances, healthy) ==
    Check_gpu_health(statuses, instances, healthy)

\* the registry select_best_gpu leaves behind (re-probed when nothing was available)
StatusAfterSelect(order, statuses, instances, healthy) ==
    IF Available_gpus(order, statuses) = <<>>
    THEN Check_gpu_health(statuses, instances, healthy)
    ELSE statuses

\* the id select_best_gpu returns, None when it raises RuntimeError
select_best_gpu(order, statuses, instances, healthy) ==
    LET after == StatusAfterSelect(order, statuses, instances, healthy)
        available == Available_gpus(order, after)
    IN  IF available = <<>> THEN None ELSE Best_gpu(available, after)

----------------------------------------------------------------------------
(* AudioStreamer: a queue per sample, closed by a stop signal *)

StopSignal == [seq |-> 0, len |-> 0]

NewStreamer == [queue |-> <<>>, finished |-> FALSE]

\* AudioStreamer.put: a chunk offered after end() is discarded
StreamerPut(st, chunk) ==
    IF st.finished THEN st ELSE [st EXCEPT !.queue = Append(@, chunk)]

\* AudioStreamer.end: enqueue the stop signal once and close the stream
StreamerEnd(st) ==
    IF st.finished THEN st
    ELSE [queue |-> Append(st.queue, StopSignal), finished |-> TRUE]

----------------------------------------------------------------------------
(* Events a generator yields *)

Event(kind, arity, audio, total) ==
    [kind |-> kind, arity |-> arity, audio |-> audio, total |-> total]

StatusEvent(kind, arity) == Event(kind, arity, <<>>, 0)

AudioKinds == {"partialAudio", "finalAudio"}

RequestKinds == {"ok", "empty_script", "bad_num_speakers", "bad_speaker",
                "audio_fail", "processor_fail"}
InvalidRequests == {"empty_script", "bad_num_speakers", "bad_speaker"}

NewSession ==
    [pc |-> "idle", req |-> [kind |-> "ok", chunks |-> 0], selected_gpu |-> None,
     all_audio_chunks |-> <<>>, pending_chunks |-> <<>>,
     has_yielded_audio |-> FALSE, has_received_chunks |-> FALSE,
     last_yield_time |-> 0, events |-> <<>>,
     \* history of the session, read by the properties only
     stop_issued |-> FALSE, stop_streaming |-> FALSE, stop_observed |-> 0,
     stream_ended |-> FALSE, joins |-> 0, stale_stop |-> FALSE]

NewThread == [state |-> "none", produced |-> <<>>, raised |-> FALSE]

NewInstance ==
    [stop_generation |-> FALSE, is_generating |-> FALSE, current_streamer |-> None]

Active(s) == sess[s].pc \notin {"idle", "done"}
Streaming(s) == sess[s].pc \in {"grace", "drain"}

Emit(rec, ev) == [rec EXCEPT !.events = Append(@, ev)]

----------------------------------------------------------------------------
(* GPUManager.generate_podcast_streaming: selection and queue accounting *)

\* an assignment that queues two units
QueuePut_Twice(q) == q + 2

\* line 333: self.gpu_queues[selected_gpu].put(1)
QueuePut(q) == q + 1

\* a finally clause that leaves the unit in the queue
QueueGetNowait_Kept(q) == q

\* lines 362-365: get_nowait(), queue.Empty swallowed
QueueGetNowait(q) == IF q > 0 THEN q - 1 ELSE q

\* line 1577: Gradio runs at most len(gpu_instances) generate calls at once
ConcurrencyLimit == Cardinality(gpu_instances)

\* lines 266-268 of _handle_gpu_error
MarkUnavailable(statuses, g) ==
    [statuses EXCEPT ![g].is_available = FALSE]

\* a recovery thread that probes without sleeping
ScheduleRecovery_Immediate(wakes, current_time) == Append(wakes, current_time)

\* lines 278-291: a daemon thread that sleeps recovery_delay seconds first
ScheduleRecovery(wakes, current_time) == Append(wakes, current_time + recovery_delay)

\* what the monitor thread holds when it is not between its writes
NoWrite == [gpu_id |-> None, stage |-> 0, memory_used |-> 0, utilization |-> 0,
            queue_length |-> 0, before |-> <<>>]

\* lines 757-758 and 764-765: the except clauses of the instance's generator
HandlerFlags(i) ==
    [i EXCEPT !.is_generating = FALSE, !.current_streamer = None]

(* The call enters the try block: select_best_gpu, then the put under the  *)
(* device's lock.  When select_best_gpu raises, selected_gpu is still None: *)
(* the except clause yields the error and the finally clause has nothing   *)
(* to release.                                                             *)
Start(s, r) ==
    /\ sess[s].pc = "idle"
    /\ Cardinality({t \in Sessions : Active(t)}) < ConcurrencyLimit
    /\ LET g == select_best_gpu(target_gpus, gpu_status, gpu_instances, gpu_healthy)
       IN  /\ gpu_status' = StatusAfterSelect(target_gpus, gpu_status, gpu_instances, gpu_healthy)
           /\ IF g = None
              THEN /\ sess' = [sess EXCEPT ![s] =
                          Emit([@ EXCEPT !.pc = "returned", !.req = r],
                               StatusEvent("gpu_error", 4))]
                   /\ UNCHANGED gpu_queues
              ELSE /\ sess' = [sess EXCEPT ![s].pc = "begin", ![s].req = r,
                                           ![s].selected_gpu = g]
                   /\ gpu_queues' = [gpu_queues EXCEPT ![g] = QueuePut(@)]
    /\ UNCHANGED <<target_gpus, gpu_instances, gpu_healthy, recovering, recover_at,
                   inst, streamer, thread, now, auxvars>>

\* an except clause that hands the call back to the scheduler
Raise_Retries(s, flags, kind, escapes) ==
    LET g == sess[s].selected_gpu
    IN  /\ inst' = [flags EXCEPT ![g] = HandlerFlags(@)]
        /\ UNCHANGED <<gpu_status, recovering, recover_at>>
        /\ sess' = [sess EXCEPT ![s].pc = "idle", ![s].selected_gpu = None]

(* An exception inside the instance's generator is caught by its own       *)
(* except clauses (755-770), which reset the flags and yield an error.     *)
(* When the clause itself raises before its yield, the exception reaches   *)
(* the manager's except clause (342-356): _handle_gpu_error, then the      *)
(* manager's own error event.                                              *)
Raise(s, flags, kind, escapes) ==
    LET g == sess[s].selected_gpu
    IN  /\ inst' = [flags EXCEPT ![g] = HandlerFlags(@)]
        /\ IF escapes
           THEN /\ recovering[g] < MaxRecoveries
                /\ gpu_status' = MarkUnavailable(gpu_status, g)
                /\ recovering' = [recovering EXCEPT ![g] = @ + 1]
                /\ recover_at' = [recover_at EXCEPT ![g] = ScheduleRecovery(@, now)]
                /\ sess' = [sess EXCEPT ![s] =
                       Emit([@ EXCEPT !.pc = "returned"], StatusEvent("gpu_error", 4))]
           ELSE /\ UNCHANGED <<gpu_status, recovering, recover_at>>
                /\ sess' = [sess EXCEPT ![s] =
                       Emit([@ EXCEPT !.pc = "returned"], StatusEvent(kind, 4))]

\* an entry that leaves the stop flag as it finds it
ResetFlags_KeepsStop(i) == [i EXCEPT !.is_generating = TRUE]

\* lines 486-488
ResetFlags(i) == [i EXCEPT !.stop_generation = FALSE, !.is_generating = TRUE]

\* lines 486-509: reset of the flags, then validation of the request
Begin(s, escapes) ==
    /\ sess[s].pc = "begin"
    /\ LET g == sess[s].selected_gpu
           flags == [inst EXCEPT ![g] = ResetFlags(@)]
       IN  IF sess[s].req.kind \in InvalidRequests
           THEN Raise(s, flags, "input_error", escapes)
           ELSE /\ ~escapes
                /\ inst' = flags
                /\ sess' = [sess EXCEPT ![s].pc = "validated",
                                        ![s].stale_stop = inst[g].stop_generation]
                /\ UNCHANGED <<gpu_status, recovering, recover_at>>
    /\ UNCHANGED <<target_gpus, gpu_instances, gpu_queues, gpu_healthy,
                   streamer, thread, now, auxvars>>

\* lines 516-592: the stop polls before dispatch, voice loading, the
\* processor call, the streamer and the start of the generation thread
Dispatch(s, escapes) ==
    /\ sess[s].pc = "validated"
    /\ LET g == sess[s].selected_gpu
       IN  IF inst[g].stop_generation
           THEN /\ ~escapes
                /\ inst' = [inst EXCEPT ![g].is_generating = FALSE]
                /\ sess' = [sess EXCEPT ![s] =
                       Emit([@ EXCEPT !.pc = "returned"], StatusEvent("stopped", 3))]
                /\ UNCHANGED <<gpu_status, recovering, recover_at, streamer, thread>>
           ELSE IF sess[s].req.kind = "audio_fail"
           THEN /\ Raise(s, [inst EXCEPT ![g].is_generating = FALSE],
                         "input_error", escapes)
                /\ UNCHANGED <<streamer, thread>>
           ELSE IF sess[s].req.kind = "processor_fail"
           THEN /\ Raise(s, inst, "unexpected_error", escapes)
                /\ UNCHANGED <<streamer, thread>>
           ELSE /\ ~escapes
                /\ inst' = [inst EXCEPT ![g].current_streamer = s]
                /\ streamer' = [streamer EXCEPT ![s] = NewStreamer]
                /\ thread' = [thread EXCEPT ![s].state = "starting"]
                /\ sess' = [sess EXCEPT ![s].pc = "grace"]
                /\ UNCHANGED <<gpu_status, recovering, recover_at>>
    /\ UNCHANGED <<target_gpus, gpu_instances, gpu_queues, gpu_healthy, now, auxvars>>

\* lines 594-618: after the one-second grace period
PostStart(s) ==
    /\ sess[s].pc = "grace"
    /\ LET g == sess[s].selected_gpu
       IN  IF inst[g].stop_generation
           THEN /\ streamer' = [streamer EXCEPT ![s] = StreamerEnd(@)]
                /\ inst' = [inst EXCEPT ![g].is_generating = FALSE]
                /\ sess' = [sess EXCEPT ![s] =
                       Emit([@ EXCEPT !.pc = "returned", !.joins = 1],
                            StatusEvent("stopped", 3))]
           ELSE /\ sess' = [sess EXCEPT ![s].pc = "drain",
                                        ![s].last_yield_time = now]
                /\ UNCHANGED <<streamer, inst>>
    /\ UNCHANGED <<regvars, thread, now, auxvars>>

----------------------------------------------------------------------------
(* The drain loop of VibeVoiceDemo.generate_podcast_streaming *)

\* a policy that applies the time rule before the first flush too
Should_yield_OnTime(has_yielded_audio, pending_audio_size, time_since_last_yield) ==
    \/ pending_audio_size >= min_chunk_size
    \/ time_since_last_yield >= min_yield_interval

\* a policy that never flushes on elapsed time
Should_yield_SizeOnly(has_yielded_audio, pending_audio_size, time_since_last_yield) ==
    pending_audio_size >= min_chunk_size

\* lines 656-664
Should_yield(has_yielded_audio, pending_audio_size, time_since_last_yield) ==
    IF ~has_yielded_audio /\ pending_audio_size >= min_chunk_size
    THEN TRUE
    ELSE has_yielded_audio
         /\ (pending_audio_size >= min_chunk_size
             \/ time_since_last_yield >= min_yield_interval)

\* a buffer that takes every new chunk at its front
ReceiveChunk_NewestFirst(rec, audio_chunk, current_time) ==
    LET all == Append(rec.all_audio_chunks, audio_chunk)
        pending == <<audio_chunk>> \o rec.pending_chunks
        yield == Should_yield(rec.has_yielded_audio, SumLen(pending),
                              current_time - rec.last_yield_time)
        got == [rec EXCEPT !.all_audio_chunks = all,
                           !.has_received_chunks = TRUE]
    IN  IF yield
        THEN Emit([got EXCEPT !.has_yielded_audio = TRUE,
                              !.pending_chunks = <<>>,
                              !.last_yield_time = current_time],
                  Event("partialAudio", 4, pending, SumLen(all)))
        ELSE [got EXCEPT !.pending_chunks = pending]

\* a flush that leaves the flushed chunks in the pending buffer
ReceiveChunk_KeepsPending(rec, audio_chunk, current_time) ==
    LET all == Append(rec.all_audio_chunks, audio_chunk)
        pending == Append(rec.pending_chunks, audio_chunk)
        yield == Should_yield(rec.has_yielded_audio, SumLen(pending),
                              current_time - rec.last_yield_time)
        got == [rec EXCEPT !.all_audio_chunks = all,
                           !.has_received_chunks = TRUE,
                           !.pending_chunks = pending]
    IN  IF yield
        THEN Emit([got EXCEPT !.has_yielded_audio = TRUE,
                              !.last_yield_time = current_time],
                  Event("partialAudio", 4, pending, SumLen(all)))
        ELSE got

\* lines 626-679: one chunk taken from the stream with the stop flag clear
ReceiveChunk(rec, audio_chunk, current_time) ==
    LET all == Append(rec.all_audio_chunks, audio_chunk)
        pending == Append(rec.pending_chunks, audio_chunk)
        yield == Should_yield(rec.has_yielded_audio, SumLen(pending),
                              current_time - rec.last_yield_time)
        got == [rec EXCEPT !.all_audio_chunks = all,
                           !.has_received_chunks = TRUE]
    IN  IF yield
        THEN Emit([got EXCEPT !.has_yielded_audio = TRUE,
                              !.pending_chunks = <<>>,
                              !.last_yield_time = current_time],
                  Event("partialAudio", 4, pending, SumLen(all)))
        ELSE [got EXCEPT !.pending_chunks = pending]

\* a loop that processes every chunk without looking at the stop flag
DrainChunk_NoPoll(s) ==
    /\ sess[s].pc = "drain"
    /\ streamer[s].queue # <<>>
    /\ LET item == Head(streamer[s].queue)
           rest == [streamer[s] EXCEPT !.queue = Tail(@)]
       IN  /\ streamer' = [streamer EXCEPT ![s] = rest]
           /\ sess' = [sess EXCEPT ![s] =
                  IF item = StopSignal
                  THEN [@ EXCEPT !.pc = "afterloop", !.stream_ended = TRUE]
                  ELSE ReceiveChunk(@, item, now)]
    /\ UNCHANGED <<regvars, inst, thread, now, auxvars>>

\* lines 620-624: the next item of the stream; the stop signal ends the
\* iteration, a chunk met with the stop flag set ends the streamer and breaks
DrainChunk(s) ==
    /\ sess[s].pc = "drain"
    /\ streamer[s].queue # <<>>
    /\ LET g == sess[s].selected_gpu
           item == Head(streamer[s].queue)
           rest == [streamer[s] EXCEPT !.queue = Tail(@)]
       IN  IF item = StopSignal
           THEN /\ streamer' = [streamer EXCEPT ![s] = rest]
                /\ sess' = [sess EXCEPT ![s].pc = "afterloop",
                                        ![s].stream_ended = TRUE]
           ELSE IF inst[g].stop_generation
           THEN /\ streamer' = [streamer EXCEPT ![s] = StreamerEnd(rest)]
                /\ sess' = [sess EXCEPT ![s].pc = "afterloop",
                                        ![s].stop_observed = Len(sess[s].events) + 1]
           ELSE /\ streamer' = [streamer EXCEPT ![s] = rest]
                /\ sess' = [sess EXCEPT ![s] = ReceiveChunk(@, item, now)]
    /\ UNCHANGED <<regvars, inst, thread, now, auxvars>>

\* an exit that forgets what the pending buffer still holds
RemainingEvent_Dropped(rec) == rec

\* lines 681-687: what is left in the pending buffer when the loop is over
RemainingEvent(rec) ==
    IF rec.pending_chunks # <<>>
    THEN Emit([rec EXCEPT !.has_yielded_audio = TRUE],
              Event("partialAudio", 4, rec.pending_chunks,
                    SumLen(rec.all_audio_chunks)))
    ELSE rec

\* an exit that reports the stop as soon as the loop is left
AfterLoop_ReportsStop(s) ==
    /\ sess[s].pc = "afterloop"
    /\ sess' = [sess EXCEPT ![s] =
           [RemainingEvent(IF inst[sess[s].selected_gpu].stop_generation
                           THEN Emit(@, StatusEvent("stopped", 4)) ELSE @)
               EXCEPT !.pc = "join"]]
    /\ UNCHANGED <<regvars, inst, streamer, thread, now, auxvars>>

AfterLoop(s) ==
    /\ sess[s].pc = "afterloop"
    /\ sess' = [sess EXCEPT ![s] = [RemainingEvent(@) EXCEPT !.pc = "join"]]
    /\ UNCHANGED <<regvars, inst, streamer, thread, now, auxvars>>

\* an ending that reports an empty stream as complete audio
FinalEvent_SilentSuccess(rec, stop_generation) ==
    IF stop_generation
    THEN StatusEvent("stopped", 4)
    ELSE Event("finalAudio", 4, rec.all_audio_chunks, SumLen(rec.all_audio_chunks))

\* an ending whose success event carries no audio
FinalEvent_StatusOnly(rec, stop_generation) ==
    IF stop_generation
    THEN StatusEvent("stopped", 4)
    ELSE IF ~rec.has_received_chunks
    THEN StatusEvent("no_audio_chunks", 4)
    ELSE Event("finalAudio", 4, <<>>, 0)

\* an ending whose complete audio is the last chunk only
FinalEvent_LastChunk(rec, stop_generation) ==
    IF stop_generation
    THEN StatusEvent("stopped", 4)
    ELSE IF ~rec.has_received_chunks
    THEN StatusEvent("no_audio_chunks", 4)
    ELSE LET last == <<rec.all_audio_chunks[Len(rec.all_audio_chunks)]>>
         IN  Event("finalAudio", 4, last, SumLen(last))

\* lines 704-753: the event that ends the instance's generator
FinalEvent(rec, stop_generation) ==
    IF stop_generation
    THEN StatusEvent("stopped", 4)
    ELSE IF rec.has_received_chunks /\ ~rec.has_yielded_audio
            /\ rec.all_audio_chunks # <<>>
    THEN Event("finalAudio", 4, rec.all_audio_chunks, SumLen(rec.all_audio_chunks))
    ELSE IF ~rec.has_received_chunks
    THEN StatusEvent("no_audio_chunks", 4)
    ELSE IF ~rec.has_yielded_audio
    THEN StatusEvent("not_streamed", 4)
    ELSE IF rec.all_audio_chunks # <<>>
    THEN Event("finalAudio", 4, rec.all_audio_chunks, SumLen(rec.all_audio_chunks))
    ELSE StatusEvent("no_audio_generated", 4)

\* a join that is never repeated
Join_waits_Single(alive) == 1

\* lines 690-696: join(timeout=5.0), and once more after the forced end()
\* when the thread is still alive
Join_waits(alive) == IF alive THEN 2 ELSE 1

\* lines 689-753: bounded joins (the streamer is force-ended when the
\* thread outlives the first), clean-up, then the terminal event
Finalize(s) ==
    /\ sess[s].pc = "join"
    /\ LET g == sess[s].selected_gpu
       IN  /\ streamer' = [streamer EXCEPT ![s] =
                   IF thread[s].state # "done" THEN StreamerEnd(@) ELSE @]
           /\ inst' = [inst EXCEPT ![g].current_streamer = None,
                                   ![g].is_generating = FALSE]
           /\ sess' = [sess EXCEPT ![s] =
                   Emit([@ EXCEPT !.pc = "returned",
                                  !.joins = Join_waits(thread[s].state # "done")],
                        FinalEvent(sess[s], inst[g].stop_generation))]
    /\ UNCHANGED <<regvars, thread, now, auxvars>>

\* a finally clause that takes a unit from every queue when no device was
\* selected
Release_Unchecked(queues, selected_gpu) ==
    [g \in DOMAIN queues |->
        IF selected_gpu = None \/ g = selected_gpu
        THEN QueueGetNowait(queues[g]) ELSE queues[g]]

\* lines 358-365: nothing to release when selected_gpu is still None
Release(queues, selected_gpu) ==
    IF selected_gpu # None
    THEN [queues EXCEPT ![selected_gpu] = QueueGetNowait(@)]
    ELSE queues

\* lines 358-365: the finally clause of the manager's generator, run when
\* the generator is exhausted or closed by its consumer; the locals of the
\* two generators are gone with their frames
Finish(s) ==
    /\ sess[s].pc = "returned"
    /\ gpu_queues' = Release(gpu_queues, sess[s].selected_gpu)
    /\ sess' = [sess EXCEPT ![s] =
           [NewSession EXCEPT !.pc = "done",
                              !.selected_gpu = sess[s].selected_gpu,
                              !.events = sess[s].events,
                              !.stop_issued = sess[s].stop_issued,
                              !.stop_streaming = sess[s].stop_streaming,
                              !.stop_observed = sess[s].stop_observed,
                              !.stream_ended = sess[s].stream_ended,
                              !.joins = sess[s].joins]]
    /\ UNCHANGED <<target_gpus, gpu_instances, gpu_status, gpu_healthy,
                   recovering, recover_at, inst, streamer, thread, now, auxvars>>

----------------------------------------------------------------------------
(* generate_podcast_wrapper: what the interface receives.  Every event of  *)
(* the manager's generator is unpacked into four names (line 1320); an     *)
(* event of another length raises ValueError there, which the wrapper's    *)
(* except clause (1343-1349) turns into its own error event, and the       *)
(* iteration is over.                                                      *)
RECURSIVE Forward(_)
Forward(events) ==
    IF events = <<>> THEN <<>>
    ELSE IF Head(events).arity # 4
    THEN <<StatusEvent("wrapper_error", 6)>>
    ELSE <<[Head(events) EXCEPT !.arity = 6]>> \o Forward(Tail(events))

Generate_podcast_wrapper(events) ==
    <<StatusEvent("starting", 6)>> \o Forward(events)

----------------------------------------------------------------------------
(* The generation thread: VibeVoiceDemo._generate_with_streamer driving    *)
(* the engine's decode loop                                                *)

NextChunk(produced, len) == [seq |-> Len(produced) + 1, len |-> len]

\* lines 775-778
ThreadBegin(s) ==
    /\ thread[s].state = "starting"
    /\ IF inst[sess[s].selected_gpu].stop_generation
       THEN /\ streamer' = [streamer EXCEPT ![s] = StreamerEnd(@)]
            /\ thread' = [thread EXCEPT ![s].state = "done"]
       ELSE /\ thread' = [thread EXCEPT ![s].state = "running"]
            /\ UNCHANGED streamer
    /\ UNCHANGED <<regvars, inst, sess, now, auxvars>>

\* one decode step that emits a chunk; the engine looks at stop_check_fn and
\* at the streamer's finished flag between steps
ThreadProduce(s, len) ==
    /\ thread[s].state = "running"
    /\ Len(thread[s].produced) < sess[s].req.chunks
    /\ ~inst[sess[s].selected_gpu].stop_generation
    /\ ~streamer[s].finished
    /\ LET chunk == NextChunk(thread[s].produced, len)
       IN  /\ thread' = [thread EXCEPT ![s].produced = Append(@, chunk)]
           /\ streamer' = [streamer EXCEPT ![s] = StreamerPut(@, chunk)]
    /\ UNCHANGED <<regvars, inst, sess, now, auxvars>>

\* the decode loop is over (end of script, stop observed, or the exception
\* handled at lines 798-802): the stream is ended either way
ThreadEnd(s, raised) ==
    /\ thread[s].state = "running"
    /\ streamer' = [streamer EXCEPT ![s] = StreamerEnd(@)]
    /\ thread' = [thread EXCEPT ![s].state = "done", ![s].raised = raised]
    /\ UNCHANGED <<regvars, inst, sess, now, auxvars>>

----------------------------------------------------------------------------
(* stop, monitor, health *)

\* a stop that flips the flag instead of setting it
StopFlags_Toggle(i) == [i EXCEPT !.stop_generation = ~@]

\* GPUManager.stop_audio_generation over VibeVoiceDemo.stop_audio_generation
StopFlags(i) == [i EXCEPT !.stop_generation = TRUE]

\* lines 369-370 with 806: the flag of every instance
Stop_instances(instances) ==
    [g \in DOMAIN instances |-> StopFlags(instances[g])]

\* lines 369-370 with 807-809: end() on every instance's current streamer
Stop_streamers(instances, streamers) ==
    [s \in DOMAIN streamers |->
        IF \E g \in DOMAIN instances : instances[g].current_streamer = s
        THEN StreamerEnd(streamers[s]) ELSE streamers[s]]

Stop ==
    /\ inst' = Stop_instances(inst)
    /\ streamer' = Stop_streamers(inst, streamer)
    /\ sess' = [s \in Sessions |->
           [sess[s] EXCEPT !.stop_issued = @ \/ Active(s),
                           !.stop_streaming = @ \/ Streaming(s)]]
    /\ UNCHANGED <<regvars, thread, now, auxvars>>

\* a refresh that also declares the device available
MonitorStatus_Revives(status, memory, utilization, qsize) ==
    [status EXCEPT !.memory_used = memory, !.utilization = utilization,
                   !.queue_length = qsize, !.is_available = TRUE]

\* one device's turn in a cycle of GPUManager._monitor_gpu_status
MonitorStatus(status, memory, utilization, qsize) ==
    [status EXCEPT !.memory_used = memory, !.utilization = utilization,
                   !.queue_length = qsize]

MonitorRefresh(g, memory, utilization) ==
    /\ g \in gpu_instances
    /\ gpu_status' = [gpu_status EXCEPT ![g] =
           MonitorStatus(@, memory, utilization, gpu_queues[g])]
    /\ UNCHANGED <<target_gpus, gpu_instances, gpu_queues, gpu_healthy,
                   recovering, recover_at, sessvars, now, auxvars>>

(* The same turn as the monitor thread takes it, statement by statement:    *)
(* the readings of lines 164-172 first, then the three assignments of      *)
(* lines 175-177, between which any other thread may run (no lock is held). *)
MonitorRead(g, memory, utilization) ==
    /\ monitor_write = NoWrite
    /\ g \in gpu_instances
    /\ monitor_write' = [gpu_id |-> g, stage |-> 1, memory_used |-> memory,
                         utilization |-> utilization,
                         queue_length |-> gpu_queues[g],
                         before |-> Measurements(gpu_status[g])]
    /\ UNCHANGED <<regvars, sessvars, now, summary_lines, monitor_sleep, loopvars>>

MonitorWrite ==
    /\ monitor_write # NoWrite
    /\ LET g == monitor_write.gpu_id
       IN  \/ /\ monitor_write.stage = 1
              /\ gpu_status' = [gpu_status EXCEPT
                     ![g].memory_used = monitor_write.memory_used]
              /\ monitor_write' = [monitor_write EXCEPT !.stage = 2]
           \/ /\ monitor_write.stage = 2
              /\ gpu_status' = [gpu_status EXCEPT
                     ![g].utilization = monitor_write.utilization]
              /\ monitor_write' = [monitor_write EXCEPT !.stage = 3]
           \/ /\ monitor_write.stage = 3
              /\ gpu_status' = [gpu_status EXCEPT
                     ![g].queue_length = monitor_write.queue_length]
              /\ monitor_write' = NoWrite
    /\ UNCHANGED <<target_gpus, gpu_instances, gpu_queues, gpu_healthy,
                   recovering, recover_at, sessvars, now, summary_lines,
                   monitor_sleep, loopvars>>

\* a failed probe that takes the device out of service
MonitorFailure_MarksUnavailable(statuses, g) ==
    [statuses EXCEPT ![g].is_available = FALSE]

\* lines 164-166 raise for device g: the writes of lines 175-178 are not
\* reached for it, the except clause of line 182 only prints
MonitorFailure(statuses, g) == statuses

\* a cycle of the monitor ends in the except clause: the probe of g raised,
\* the thread sleeps 10 seconds and the while loop goes on
MonitorProbeFails(g) ==
    /\ g \in gpu_instances
    /\ gpu_status' = MonitorFailure(gpu_status, g)
    /\ monitor_sleep' = 10
    /\ UNCHANGED <<target_gpus, gpu_instances, gpu_queues, gpu_healthy,
                   recovering, recover_at, sessvars, now, summary_lines,
                   monitor_write, loopvars>>

\* a cycle of the monitor ends normally: line 180
MonitorSleep ==
    /\ monitor_sleep' = 5
    /\ UNCHANGED <<regvars, sessvars, now, summary_lines, monitor_write, loopvars>>

\* recover_gpu (lines 278-288), once its sleep is over
RecoverGpu(g) ==
    /\ recovering[g] > 0
    /\ now >= Head(recover_at[g])
    /\ gpu_status' = Check_gpu_health(gpu_status, gpu_instances, gpu_healthy)
    /\ recovering' = [recovering EXCEPT ![g] = @ - 1]
    /\ recover_at' = [recover_at EXCEPT ![g] = Tail(@)]
    /\ UNCHANGED <<target_gpus, gpu_instances, gpu_queues, gpu_healthy,
                   sessvars, now, auxvars>>

\* the hardware: a device starts or stops answering the health check
GpuHealth(g, healthy) ==
    /\ g \in gpu_instances
    /\ gpu_healthy[g] # healthy
    /\ gpu_healthy' = [gpu_healthy EXCEPT ![g] = healthy]
    /\ UNCHANGED <<target_gpus, gpu_instances, gpu_status, gpu_queues,
                   recovering, recover_at, sessvars, now, auxvars>>

(* GPUManager.get_gpu_status_summary: one entry per registry entry, in     *)
(* ascending id order, with the fields the text is formatted from.         *)
RECURSIVE SortedIds(_)
SortedIds(ids) ==
    IF ids = {} THEN <<>>
    ELSE LET least == CHOOSE g \in ids : \A h \in ids : g <= h
         IN  <<least>> \o SortedIds(ids \ {least})

SummaryEntry(gpu_id, status) ==
    [gpu_id |-> gpu_id, is_available |-> status.is_available,
     queue_length |-> status.queue_length,
     memory_usage_percent |-> memory_usage_percent(status),
     memory_used |-> status.memory_used, memory_total |-> status.memory_total,
     utilization |-> status.utilization]

\* a summary that lists the available devices only
Get_gpu_status_summary_AvailableOnly(statuses) ==
    LET ids == SortedIds({g \in DOMAIN statuses : statuses[g].is_available})
    IN  [i \in DOMAIN ids |-> SummaryEntry(ids[i], statuses[ids[i]])]

Get_gpu_status_summary(statuses) ==
    LET ids == SortedIds(DOMAIN statuses)
    IN  [i \in DOMAIN ids |-> SummaryEntry(ids[i], statuses[ids[i]])]

StatusSummary ==
    /\ summary_lines' = Get_gpu_status_summary(gpu_status)
    /\ UNCHANGED <<regvars, sessvars, now, monitor_sleep, monitor_write, loopvars>>

\* the clock: time.time() as read at lines 610 and 653, time.sleep at 279
TickBy(step, limit) ==
    /\ now < limit
    /\ now' = now + step
    /\ UNCHANGED <<regvars, sessvars, auxvars>>

RecoveryTick == TickBy(recovery_delay, MaxRecoverTime)

Tick ==
    /\ now < MaxTime
    /\ now' = now + TimeStep
    /\ UNCHANGED <<regvars, sessvars, auxvars>>

(* GPUManager._monitor_gpu_status as the loop it is: the test of line 159,  *)
(* a cycle over the devices that have an instance, the sleep that ends the  *)
(* cycle (5 s, or 10 s from the except clause), and shutdown().            *)

\* a loop that never looks at the flag
LoopContinues_Always(stop) == TRUE

\* line 159: while not self.stop_monitoring
LoopContinues(stop) == ~stop

MonitorLoopTest ==
    /\ monitor_pc = "test"
    /\ IF LoopContinues(stop_monitoring)
       THEN /\ monitor_pc' = "cycle"
            /\ monitor_todo' = SelectSeq(target_gpus, LAMBDA g : g \in gpu_instances)
       ELSE /\ monitor_pc' = "exited"
            /\ UNCHANGED monitor_todo
    /\ UNCHANGED <<regvars, sessvars, now, summary_lines, monitor_sleep,
                   monitor_write, stop_monitoring, shutdown_at>>

\* lines 161-178 for the next device of the cycle
MonitorLoopRefresh(memory, utilization) ==
    /\ monitor_pc = "cycle"
    /\ monitor_todo # <<>>
    /\ LET g == Head(monitor_todo)
       IN  gpu_status' = [gpu_status EXCEPT ![g] =
               MonitorStatus(@, memory, utilization, gpu_queues[g])]
    /\ monitor_todo' = Tail(monitor_todo)
    /\ UNCHANGED <<target_gpus, gpu_instances, gpu_queues, gpu_healthy,
                   recovering, recover_at, sessvars, now, summary_lines,
                   monitor_sleep, monitor_write, stop_monitoring, monitor_pc,
                   shutdown_at>>

\* lines 182-184: the probe of the next device raised, the rest of the
\* cycle is skipped
MonitorLoopFails ==
    /\ monitor_pc = "cycle"
    /\ monitor_todo # <<>>
    /\ gpu_status' = MonitorFailure(gpu_status, Head(monitor_todo))
    /\ monitor_todo' = <<>>
    /\ monitor_sleep' = 10
    /\ monitor_pc' = "sleep"
    /\ UNCHANGED <<target_gpus, gpu_instances, gpu_queues, gpu_healthy,
                   recovering, recover_at, sessvars, now, summary_lines,
                   monitor_write, stop_monitoring, shutdown_at>>

\* line 180
MonitorLoopSleeps ==
    /\ monitor_pc = "cycle"
    /\ monitor_todo = <<>>
    /\ monitor_sleep' = 5
    /\ monitor_pc' = "sleep"
    /\ UNCHANGED <<regvars, sessvars, now, summary_lines, monitor_write,
                   stop_monitoring, monitor_todo, shutdown_at>>

\* the sleep is over: back to the test of line 159
MonitorLoopWakes ==
    /\ monitor_pc = "sleep"
    /\ monitor_pc' = "test"
    /\ UNCHANGED <<regvars, sessvars, now, summary_lines, monitor_sleep,
                   monitor_write, stop_monitoring, monitor_todo, shutdown_at>>

MonitorLoop ==
    \/ MonitorLoopTest
    \/ \E r \in RefreshReadings : MonitorLoopRefresh(r[1], r[2])
    \/ MonitorLoopFails
    \/ MonitorLoopSleeps
    \/ MonitorLoopWakes

\* GPUManager.shutdown, line 374
Shutdown ==
    /\ ~stop_monitoring
    /\ stop_monitoring' = TRUE
    /\ shutdown_at' = monitor_pc
    /\ UNCHANGED <<regvars, sessvars, now, summary_lines, monitor_sleep,
                   monitor_write, monitor_pc, monitor_todo>>

----------------------------------------------------------------------------
(* Specifications *)

\* GPUManager.__init__ and _initialize_gpus: the configured ids in their
\* configured order, at least one of which initialised
Configurations ==
    {c \in [order : UNION {Perms(S) : S \in SUBSET GpuIds \ {{}}},
            ok : SUBSET GpuIds \ {{}}] : c.ok \subseteq Range(c.order)}

Configured(c) ==
    /\ target_gpus = c.order
    /\ gpu_instances = c.ok
    /\ gpu_queues = [g \in c.ok |-> 0]
    /\ recovering = [g \in c.ok |-> 0]
    /\ recover_at = [g \in c.ok |-> <<>>]
    /\ inst = [g \in c.ok |-> NewInstance]
    /\ sess = [s \in Sessions |-> NewSession]
    /\ streamer = [s \in Sessions |-> NewStreamer]
    /\ thread = [s \in Sessions |-> NewThread]
    /\ now = 0
    /\ summary_lines = <<>>
    /\ monitor_sleep = 0
    /\ monitor_write = NoWrite
    /\ stop_monitoring = FALSE
    /\ monitor_pc = "test"
    /\ monitor_todo = <<>>
    /\ shutdown_at = "none"

Init ==
    \E c \in Configurations :
        /\ Configured(c)
        /\ gpu_status = [g \in Range(c.order) |-> InitialStatus(g \in c.ok)]
        /\ gpu_healthy = [g \in Range(c.order) |-> g \in c.ok]

\* a request: what validation makes of it, and how many chunks its script
\* is worth when the engine runs to the end
Request(kind, chunks) == [kind |-> kind, chunks |-> chunks]

SessionStep(s, requests, lens, faults) ==
    \/ \E r \in requests : Start(s, r)
    \/ \E escapes \in BOOLEAN : Begin(s, escapes)
    \/ \E escapes \in BOOLEAN : Dispatch(s, escapes)
    \/ PostStart(s)
    \/ DrainChunk(s)
    \/ AfterLoop(s)
    \/ Finalize(s)
    \/ Finish(s)
    \/ ThreadBegin(s)
    \/ \E len \in lens : ThreadProduce(s, len)
    \/ \E raised \in faults : ThreadEnd(s, raised)

(* The pool: concurrent sessions over the configured devices, with the     *)
(* monitor, the health checks and stop().                                  *)
PoolRequests == {Request(k, n) : k \in RequestKinds, n \in {PoolChunks}}

Next ==
    \/ \E s \in Sessions : SessionStep(s, PoolRequests, {ChunkUnit}, {FALSE})
    \/ Stop
    \/ \E g \in GpuIds : MonitorRefresh(g, 0, 0)

Spec == Init /\ [][Next]_vars

(* One session on one device, with the clock: the drain loop and its       *)
(* flush policy over every chunk sequence and timing within the bounds.    *)
StreamRequests == {Request("ok", n) : n \in 0 .. MaxChunks}

InitStream ==
    /\ Configured([order |-> <<0>>, ok |-> {0}])
    /\ gpu_status = [g \in {0} |-> InitialStatus(TRUE)]
    /\ gpu_healthy = [g \in {0} |-> TRUE]

NextStream ==
    \/ SessionStep(1, StreamRequests, ChunkLens, BOOLEAN)
    \/ Stop
    \/ Tick

SpecStream == InitStream /\ [][NextStream]_vars

(* One session whose consumer keeps iterating and whose generation thread  *)
(* is started but owes no progress: the engine may stop emitting chunks    *)
(* without ending the stream.  Nobody calls stop().                        *)
CoordinatorStep(s) ==
    \/ \E escapes \in BOOLEAN : Begin(s, escapes)
    \/ \E escapes \in BOOLEAN : Dispatch(s, escapes)
    \/ PostStart(s)
    \/ DrainChunk(s)
    \/ AfterLoop(s)
    \/ Finalize(s)
    \/ Finish(s)

NextStuck ==
    \/ SessionStep(1, StreamRequests, ChunkLens, BOOLEAN)
    \/ Tick

FairStuck ==
    /\ WF_vars(CoordinatorStep(1))
    /\ WF_vars(ThreadBegin(1))

SpecStuck == InitStream /\ [][NextStuck]_vars /\ FairStuck

(* The monitor thread beside one session: refreshes with every reading,   *)
(* probes that raise, and the sleeps that end its cycles.                  *)
MonitorRequests == {Request("ok", 1)}

NextMonitor ==
    \/ SessionStep(1, MonitorRequests, {ChunkUnit}, {FALSE})
    \/ \E g \in GpuIds, m \in MemValues, u \in UtilValues : MonitorRefresh(g, m, u)
    \/ \E g \in GpuIds : MonitorProbeFails(g)
    \/ MonitorSleep

SpecMonitor == Init /\ [][NextMonitor]_vars

(* The monitor thread statement by statement beside the readers of the     *)
(* registry: selections and status summaries.                              *)

NextRefresh ==
    \/ \E s \in Sessions : Start(s, Request("ok", 0))
    \/ \E s \in Sessions : Begin(s, FALSE)
    \/ StatusSummary
    \/ \E g \in GpuIds, r \in RefreshReadings : MonitorRead(g, r[1], r[2])
    \/ MonitorWrite

SpecRefresh == InitStream /\ [][NextRefresh]_vars

(* The registry under faults: requests that fail in the instance's         *)
(* generator (so that _handle_gpu_error can run), the monitor, the         *)
(* hardware, the recovery threads and stop().                              *)
FailingRequests == {Request(k, 0) : k \in {"empty_script", "processor_fail"}}

NextHealth ==
    \/ \E s \in Sessions :
          \/ \E r \in FailingRequests : Start(s, r)
          \/ \E escapes \in BOOLEAN : Begin(s, escapes)
          \/ \E escapes \in BOOLEAN : Dispatch(s, escapes)
          \/ Finish(s)
    \/ Stop
    \/ \E g \in GpuIds : MonitorRefresh(g, 0, 0)
    \/ \E g \in GpuIds : g \in gpu_instances /\ RecoverGpu(g)
    \/ \E g \in GpuIds, h \in BOOLEAN : GpuHealth(g, h)
    \/ RecoveryTick

SpecHealth == Init /\ [][NextHealth]_vars

(* The registry and all its writers beside one failing call: the monitor   *)
(* with changing readings and failing probes, the fault handler, the       *)
(* recovery thread and the hardware.                                       *)
NextRegistry ==
    \/ \E r \in FailingRequests : Start(1, r)
    \/ \E escapes \in BOOLEAN : Begin(1, escapes)
    \/ \E escapes \in BOOLEAN : Dispatch(1, escapes)
    \/ Finish(1)
    \/ \E g \in GpuIds, r \in RefreshReadings : MonitorRefresh(g, r[1], r[2])
    \/ \E g \in GpuIds : MonitorProbeFails(g)
    \/ \E g \in GpuIds : g \in gpu_instances /\ RecoverGpu(g)
    \/ \E g \in GpuIds, h \in BOOLEAN : GpuHealth(g, h)
    \/ RecoveryTick

SpecRegistry == Init /\ [][NextRegistry]_vars

(* The monitor thread's loop and shutdown(): the thread is scheduled as    *)
(* long as it has a step to take (its probes and sleeps are all bounded).  *)
NextShutdown ==
    \/ MonitorLoopTest
    \/ \E r \in RefreshReadings : MonitorLoopRefresh(r[1], r[2])
    \/ MonitorLoopFails
    \/ MonitorLoopSleeps
    \/ MonitorLoopWakes
    \/ Shutdown

SpecShutdown == Init /\ [][NextShutdown]_vars /\ WF_vars(MonitorLoop)

(* The scheduler alone: select_best_gpu applied to every registry the      *)
(* monitor and the health checks can leave behind, in every configured     *)
(* order.                                                                  *)
RegistryStatuses ==
    {GPUStatus(m, MemTotal, u, q, a) :
        m \in MemValues, u \in UtilValues, q \in 0 .. MaxQueueSeen, a \in BOOLEAN}

InitSelect ==
    \E c \in Configurations :
        /\ Configured(c)
        /\ gpu_status \in [Range(c.order) -> RegistryStatuses \cup {InitialStatus(FALSE)}]
        /\ \A g \in Range(c.order) :
               (g \in c.ok) <=> (gpu_status[g] \in RegistryStatuses)
        \* the outcome of a probe is read only when nothing is available
        /\ gpu_healthy \in [Range(c.order) -> BOOLEAN]
        /\ \A g \in Range(c.order) : gpu_healthy[g] => g \in c.ok
        /\ AvailableSet(gpu_status) # {} => \A g \in c.ok : gpu_healthy[g]

NextSelect ==
    \/ \E s \in Sessions : Start(s, Request("ok", 0))
    \/ StatusSummary

SpecSelect == InitSelect /\ [][NextSelect]_vars

----------------------------------------------------------------------------
(* Properties *)

TypeOK == now \in 0 .. (MaxTime + TimeStep)

\* a step in which the call of session s selects (or fails to select) a device
Selects(s) == sess[s].pc = "idle" /\ sess'[s].pc # "idle"

\* the score of section 4.2, in tenths, written out from the registry fields
Score10(st) ==
    st.queue_length * 100
    + (IF st.memory_total > 0 THEN (st.memory_used * 100) \div st.memory_total ELSE 0) * 5
    + st.utilization * 3

Position(order, g) == CHOOSE i \in DOMAIN order : order[i] = g

\* C6: whenever at least one device is available, select_best_gpu returns an
\* available device whose score pendingWork*10 + memoryUsedPct*0.5 +
\* utilizationPct*0.3 is minimal among the available devices; an unavailable
\* device is never returned, however low its score.
C6_SelectsMinimalAvailable ==
    [][\A s \in Sessions :
          (Selects(s) /\ AvailableSet(gpu_status) # {}) =>
              LET g == sess'[s].selected_gpu
              IN  /\ g \in AvailableSet(gpu_status)
                  /\ \A h \in AvailableSet(gpu_status) :
                         Score10(gpu_status[g]) <= Score10(gpu_status[h])]_vars

\* a selection of a loaded device that passed over an unavailable device
\* with a strictly lower score
C6_Witness ==
    \E s \in Sessions :
        /\ sess[s].pc = "begin"
        /\ \E h \in DOMAIN gpu_status :
               /\ ~gpu_status[h].is_available
               /\ gpu_status[h].memory_total > 0
               /\ Score10(gpu_status[h]) < Score10(gpu_status[sess[s].selected_gpu])
        /\ gpu_status[sess[s].selected_gpu].utilization > 0
        /\ gpu_status[sess[s].selected_gpu].memory_used > 0

\* the devices that share the minimal score among the available ones
MinimalSet(statuses) ==
    {g \in AvailableSet(statuses) :
        \A h \in AvailableSet(statuses) : Score10(statuses[g]) <= Score10(statuses[h])}

\* C7 as stated: among the available devices of minimal score the lowest id
\* is returned, whatever the configured order.
C7_LowestIdOnTie ==
    [][\A s \in Sessions :
          (Selects(s) /\ AvailableSet(gpu_status) # {}) =>
              \A h \in MinimalSet(gpu_status) : sess'[s].selected_gpu <= h]_vars

\* C7 amended: among the available devices of minimal score the one that
\* comes first in the configured order is returned; that is the lowest id
\* whenever the configured ids are ascending.
C7_FirstConfiguredOnTie ==
    [][\A s \in Sessions :
          (Selects(s) /\ AvailableSet(gpu_status) # {}) =>
              LET g == sess'[s].selected_gpu
              IN  /\ g \in MinimalSet(gpu_status)
                  /\ \A h \in MinimalSet(gpu_status) :
                         /\ Position(target_gpus, g) <= Position(target_gpus, h)
                         /\ (\A i, j \in DOMAIN target_gpus :
                                i < j => target_gpus[i] < target_gpus[j]) => g <= h]_vars

\* a tie between two available devices, resolved for the one configured
\* first, in an ascending and in a descending configuration
C7_Witness ==
    \E s \in Sessions :
        /\ sess[s].pc = "begin"
        /\ Cardinality(MinimalSet(gpu_status)) > 1
        /\ Len(target_gpus) > 1
        /\ sess[s].selected_gpu = target_gpus[1]
        /\ target_gpus[1] > target_gpus[2]

----------------------------------------------------------------------------
Last(seq) == seq[Len(seq)]

Returned(s) == sess[s].pc = "returned"
Terminated(s) == sess[s].pc = "done"

\* the sessions that hold a unit of g's pending-work queue
Holders(g) ==
    {t \in Sessions : sess[t].selected_gpu = g /\ sess[t].pc \notin {"idle", "done"}}

\* C1: once a session that was assigned a device has terminated, whatever
\* its outcome, the device's pending-work counter is back at its pre-session
\* value: nothing of the session is left in it, it counts exactly the other
\* sessions still being served by that device.
C1_CounterRestored ==
    \A s \in Sessions :
        (Terminated(s) /\ sess[s].selected_gpu # None) =>
            gpu_queues[sess[s].selected_gpu]
                = Cardinality(Holders(sess[s].selected_gpu) \ {s})

\* a session ended by an exception that reached the manager, while another
\* session is still being served by the same device
C1_Witness ==
    \E s, t \in Sessions :
        /\ Terminated(s) /\ sess[s].selected_gpu # None
        /\ Last(sess[s].events).kind = "gpu_error"
        /\ t \in Holders(sess[s].selected_gpu)
        /\ sess[t].pc = "drain"

----------------------------------------------------------------------------
\* the chunks carried by the events of the given kinds, in emission order
RECURSIVE Delivered(_, _)
Delivered(events, kinds) ==
    IF events = <<>> THEN <<>>
    ELSE (IF Head(events).kind \in kinds THEN Head(events).audio ELSE <<>>)
         \o Delivered(Tail(events), kinds)

Occurrences(seq, x) == Cardinality({i \in DOMAIN seq : seq[i] = x})

\* C2 as stated: in a session that was not cancelled, the audio delivered
\* over all flushes plus the final delivery has the total length of the
\* chunks the worker produced.
C2_DeliveredOnceInAll ==
    \A s \in Sessions :
        (Returned(s) /\ ~sess[s].stop_issued) =>
            SumLen(Delivered(sess[s].events, AudioKinds)) = SumLen(thread[s].produced)

\* C2 amended: in a session that was not cancelled, the partial-audio events
\* (the flushes of the drain loop and the delivery of what the buffer still
\* held when the stream ended) carry every chunk the worker produced exactly
\* once, and the final-audio event carries all of them once more.
C2_PartialsDeliverOnce ==
    \A s \in Sessions :
        (Returned(s) /\ ~sess[s].stop_issued) =>
            LET partials == Delivered(sess[s].events, {"partialAudio"})
                finals == Delivered(sess[s].events, {"finalAudio"})
            IN  /\ SumLen(partials) = SumLen(thread[s].produced)
                /\ Len(partials) = Len(thread[s].produced)
                /\ \A c \in Range(thread[s].produced) : Occurrences(partials, c) = 1
                /\ thread[s].produced # <<>> =>
                       /\ SumLen(finals) = SumLen(thread[s].produced)
                       /\ \A c \in Range(thread[s].produced) : Occurrences(finals, c) = 1

\* three chunks delivered by a flush of the drain loop and by the delivery of
\* the remaining buffer, then the complete audio
C2_Witness ==
    \E s \in Sessions :
        /\ Returned(s) /\ ~sess[s].stop_issued
        /\ Len(thread[s].produced) = 3
        /\ Len(sess[s].events) = 3
        /\ sess[s].events[1].kind = "partialAudio"
        /\ sess[s].events[2].kind = "partialAudio"
        /\ sess[s].events[3].kind = "finalAudio"

----------------------------------------------------------------------------
Outcome(s) ==
    LET kind == Last(sess[s].events).kind
    IN  IF kind = "finalAudio" THEN "DONE"
        ELSE IF kind = "stopped" THEN "STOPPED"
        ELSE "FAILED"

\* C3: a session that was in STREAMING when stop() was issued ends STOPPED,
\* never DONE or FAILED.
C3_StopWhileStreamingStops ==
    \A s \in Sessions :
        (sess[s].stop_streaming /\ sess[s].pc \in {"returned", "done"}) =>
            Outcome(s) = "STOPPED"

\* C4: once the drain loop of a session has observed the stop signal, no
\* audio event is delivered for that session.
C4_NoAudioAfterStopObserved ==
    \A s \in Sessions :
        sess[s].stop_observed > 0 =>
            \A i \in DOMAIN sess[s].events :
                i >= sess[s].stop_observed => sess[s].events[i].kind \notin AudioKinds

\* C5: a session that was not cancelled and whose stream ended with no chunk
\* received ends with the no-audio error: no audio event, no success.
C5_NoChunksIsAnError ==
    \A s \in Sessions :
        (Returned(s) /\ sess[s].stream_ended /\ ~sess[s].has_received_chunks
            /\ ~sess[s].stop_issued) =>
            /\ Last(sess[s].events).kind = "no_audio_chunks"
            /\ \A i \in DOMAIN sess[s].events : sess[s].events[i].kind \notin AudioKinds

\* a stream that ended empty because the generation thread raised
C5_Witness ==
    \E s \in Sessions :
        /\ Returned(s) /\ sess[s].stream_ended /\ ~sess[s].has_received_chunks
        /\ ~sess[s].stop_issued
        /\ thread[s].raised
        /\ sess[s].req.chunks > 0

----------------------------------------------------------------------------
\* the health check of g ran in this step (a recovery thread woke up, or
\* select_best_gpu found nothing available) and g passed it
ProbedOk(g) ==
    /\ g \in gpu_instances
    /\ gpu_healthy[g]
    /\ \/ \E h \in DOMAIN recovering : recovering'[h] < recovering[h]
       \/ \E s \in Sessions : Selects(s) /\ AvailableSet(gpu_status) = {}

\* C8: a device marked unavailable (by _handle_gpu_error or by a failed
\* probe) becomes available again, or is returned by select_best_gpu, only
\* in a step in which a probe of that device succeeds; no monitor refresh,
\* session start or end, or stop() makes it selectable.
C8_UnavailableUntilProbed ==
    [][\A g \in DOMAIN gpu_status :
          ~gpu_status[g].is_available =>
              /\ gpu_status'[g].is_available => ProbedOk(g)
              /\ \A s \in Sessions :
                     (Selects(s) /\ sess'[s].selected_gpu = g) => ProbedOk(g)]_vars

\* a device that faulted, failed its recovery probe and is still excluded:
\* a later call was given the other device although the faulted one comes
\* first in the configured order and scores no higher
C8_Witness ==
    \E s, t \in Sessions :
        /\ Terminated(s) /\ sess[s].selected_gpu # None
        /\ Last(sess[s].events).kind = "gpu_error"
        /\ ~gpu_status[sess[s].selected_gpu].is_available
        /\ recovering[sess[s].selected_gpu] = 0
        /\ sess[t].pc = "begin" /\ sess[t].selected_gpu # None
        /\ sess[t].selected_gpu # sess[s].selected_gpu
        /\ ~gpu_healthy[sess[s].selected_gpu]
        /\ Score10(gpu_status[sess[s].selected_gpu])
               <= Score10(gpu_status[sess[t].selected_gpu])
        /\ Position(target_gpus, sess[s].selected_gpu)
               < Position(target_gpus, sess[t].selected_gpu)

----------------------------------------------------------------------------
\* the drain loop of s emits a flush in this step
Flushes(s) ==
    /\ sess[s].pc = "drain" /\ sess'[s].pc = "drain"
    /\ Len(sess'[s].events) > Len(sess[s].events)

\* the drain loop of s takes a chunk into its buffers in this step
Receives(s) ==
    /\ sess[s].pc = "drain"
    /\ Len(sess'[s].all_audio_chunks) > Len(sess[s].all_audio_chunks)

\* C9: while no flush has occurred, the pending buffer stays below the
\* minimum, the drain loop flushes on exactly the chunk that brings the
\* buffer to the minimum, and on no other chunk, however much time passed.
C9_FirstFlushAtThreshold ==
    [][\A s \in Sessions :
          (sess[s].pc = "drain" /\ ~sess[s].has_yielded_audio) =>
              /\ SumLen(sess[s].pending_chunks) < min_chunk_size
              /\ sess[s].events = <<>>
              /\ Receives(s) =>
                    LET buffered == Append(sess[s].pending_chunks,
                                           Last(sess'[s].all_audio_chunks))
                    IN  IF SumLen(buffered) >= min_chunk_size
                        THEN /\ Flushes(s)
                             /\ Last(sess'[s].events).kind = "partialAudio"
                             /\ Last(sess'[s].events).audio = buffered
                        ELSE ~Flushes(s)]_vars

\* the flush interval has long passed with chunks waiting in the buffer, and
\* no flush has been emitted
C9_Witness ==
    \E s \in Sessions :
        /\ sess[s].pc = "drain" /\ ~sess[s].has_yielded_audio
        /\ Len(sess[s].pending_chunks) = 2
        /\ now - sess[s].last_yield_time >= min_yield_interval
        /\ streamer[s].queue # <<>>
        /\ Head(streamer[s].queue) # StopSignal

----------------------------------------------------------------------------
\* C10: a request that fails validation never has a device selected for it
\* nor a pending-work counter incremented: validation precedes queueing.
C10_ValidationBeforeDevice ==
    \A s \in Sessions :
        (sess[s].pc # "idle" /\ sess[s].req.kind \in InvalidRequests) =>
            /\ sess[s].selected_gpu = None
            /\ \A g \in DOMAIN gpu_queues : gpu_queues[g] = Cardinality(Holders(g) \ {s})

----------------------------------------------------------------------------
\* C11: a session whose generation thread raised (and that was not
\* cancelled) ends FAILED with an error event, never DONE, and the serving
\* device has been marked unavailable by _handle_gpu_error.
C11_WorkerFaultFails ==
    \A s \in Sessions :
        (Returned(s) /\ thread[s].raised /\ ~sess[s].stop_issued) =>
            /\ Outcome(s) = "FAILED"
            /\ ~gpu_status[sess[s].selected_gpu].is_available

----------------------------------------------------------------------------
\* C12: select_best_gpu re-probes the registry only when it finds no
\* available device, and then filters once more: every device that has an
\* instance takes the outcome of its probe as availability, a device is
\* returned when some probe succeeded and the call fails with the
\* no-device error otherwise; with a device available nothing is re-probed.
C12_ReprobeOnlyWhenNoneAvailable ==
    [][\A s \in Sessions :
          Selects(s) =>
              IF AvailableSet(gpu_status) # {}
              THEN /\ gpu_status' = gpu_status
                   /\ sess'[s].selected_gpu # None
              ELSE LET revived == {g \in gpu_instances : gpu_healthy[g]}
                   IN  /\ \A g \in DOMAIN gpu_status :
                              /\ gpu_status'[g].is_available = (g \in revived)
                              /\ Measurements(gpu_status'[g]) = Measurements(gpu_status[g])
                       /\ IF revived # {}
                          THEN /\ sess'[s].selected_gpu \in revived
                               /\ sess'[s].pc = "begin"
                          ELSE /\ sess'[s].selected_gpu = None
                               /\ Last(sess'[s].events).kind = "gpu_error"
                               /\ gpu_queues' = gpu_queues]_vars

\* a call served by a device that the re-probe revived, while another device
\* failed the same re-probe and stays excluded
C12_Witness ==
    \E s \in Sessions :
        /\ sess[s].pc = "begin"
        /\ gpu_healthy[sess[s].selected_gpu]
        /\ \E g \in gpu_instances :
               ~gpu_healthy[g] /\ ~gpu_status[g].is_available

----------------------------------------------------------------------------
----------------------------------------------------------------------------
\* C14: get_gpu_status_summary changes no registry entry, no pending-work
\* counter, no availability flag and no session; what it returns has exactly
\* one entry per device of the registry, unavailable ones included, that
\* shows the device's current registry fields.
C14_SummaryReadOnly ==
    [][summary_lines' # summary_lines =>
          /\ UNCHANGED <<regvars, sessvars, now, monitor_sleep, monitor_write>>
          /\ Len(summary_lines') = Cardinality(DOMAIN gpu_status)
          /\ \A g \in DOMAIN gpu_status :
                 \E i \in DOMAIN summary_lines' :
                     /\ summary_lines'[i].gpu_id = g
                     /\ summary_lines'[i].is_available = gpu_status[g].is_available
                     /\ summary_lines'[i].queue_length = gpu_status[g].queue_length
                     /\ summary_lines'[i].memory_used = gpu_status[g].memory_used
                     /\ summary_lines'[i].utilization = gpu_status[g].utilization]_vars

\* a summary of two devices, one of them unavailable, taken while a call
\* holds a unit of a pending-work queue
C14_Witness ==
    /\ Len(summary_lines) = 2
    /\ \E i \in DOMAIN summary_lines : ~summary_lines[i].is_available
    /\ \E i \in DOMAIN summary_lines : summary_lines[i].is_available
    /\ \E g \in DOMAIN gpu_queues : gpu_queues[g] > 0
    /\ summary_lines = Get_gpu_status_summary(gpu_status)

----------------------------------------------------------------------------
\* the session ended on a stop poll before dispatch or after the grace
\* period: it yielded the stopped status without its drain loop having seen
\* the end of the stream or the stop flag
StoppedAtPoll(s) ==
    /\ sess[s].pc \in {"returned", "done"}
    /\ Last(sess[s].events).kind = "stopped"
    /\ sess[s].stop_observed = 0
    /\ ~sess[s].stream_ended

\* C15: when a session observes cancellation at the poll before dispatch or
\* at the poll after the grace period, the caller of the interface receives
\* a stopped status of the same shape as every other event, not an error.
C15_EarlyStopForwarded ==
    \A s \in Sessions :
        StoppedAtPoll(s) =>
            /\ Last(sess[s].events).arity = 4
            /\ Last(Generate_podcast_wrapper(sess[s].events)).kind = "stopped"

----------------------------------------------------------------------------
\* C16: every session that entered STREAMING eventually reaches a terminal
\* state, even when its generation thread stops producing without ending
\* the stream and nobody calls stop().
C16_StreamingTerminates ==
    \A s \in Sessions :
        (sess[s].pc \in {"grace", "drain"}) ~> (sess[s].pc \in {"returned", "done"})

----------------------------------------------------------------------------
\* the monitor thread enters its except clause in this step
MonitorFails == monitor_sleep' = 10 /\ monitor_sleep # 10

\* C17: a probe that raises inside a monitor cycle changes no session, no
\* pending-work counter, no recovery and no availability flag; the monitor
\* sleeps the longer wait and, in the state the failure leaves, it can
\* still refresh every device that has an instance.
C17_MonitorFailureAbsorbed ==
    [][/\ MonitorFails =>
             /\ UNCHANGED <<sessvars, gpu_queues, recovering, now>>
             /\ \A g \in DOMAIN gpu_status :
                    gpu_status'[g].is_available = gpu_status[g].is_available
       /\ monitor_sleep = 10 =>
             /\ ENABLED MonitorSleep
             /\ \A g \in gpu_instances : ENABLED MonitorRefresh(g, 0, 0)]_vars

\* the monitor is in its longer sleep after a failed probe while a session
\* streams from an available device, a chunk waiting in its stream
C17_Witness ==
    /\ monitor_sleep = 10
    /\ sess[1].pc = "drain"
    /\ streamer[1].queue # <<>>
    /\ gpu_status[sess[1].selected_gpu].is_available

----------------------------------------------------------------------------
\* C18: once a session has flushed, its drain loop flushes on a received
\* chunk exactly when the pending buffer (that chunk included) has reached
\* the minimum again or the flush interval has passed since the last flush;
\* a flush carries the whole buffer, empties it and resets the last-flush
\* time; without a received chunk the drain loop emits nothing.
C18_LaterFlushPolicy ==
    [][\A s \in Sessions :
          (sess[s].pc = "drain" /\ sess[s].has_yielded_audio) =>
              /\ Receives(s) =>
                    LET buffered == Append(sess[s].pending_chunks,
                                           Last(sess'[s].all_audio_chunks))
                        due == \/ SumLen(buffered) >= min_chunk_size
                               \/ now - sess[s].last_yield_time >= min_yield_interval
                    IN  IF due
                        THEN /\ Flushes(s)
                             /\ Last(sess'[s].events).kind = "partialAudio"
                             /\ Last(sess'[s].events).audio = buffered
                             /\ sess'[s].pending_chunks = <<>>
                             /\ sess'[s].last_yield_time = now
                        ELSE /\ ~Flushes(s)
                             /\ sess'[s].pending_chunks = buffered
                             /\ sess'[s].last_yield_time = sess[s].last_yield_time
              /\ ~Receives(s) => ~Flushes(s)]_vars

\* a second flush made on elapsed time alone, with less than the minimum in
\* the buffer, and a chunk that arrived after it waiting in the buffer
C18_Witness ==
    \E s \in Sessions :
        /\ sess[s].pc = "drain"
        /\ Len(sess[s].events) = 2
        /\ SumLen(sess[s].events[2].audio) < min_chunk_size
        /\ sess[s].pending_chunks # <<>>
        /\ now - sess[s].last_yield_time < min_yield_interval

----------------------------------------------------------------------------
\* the stream of s ended naturally with chunks received and no flush made by
\* the drain loop: the pending buffer still holds every received chunk
EndedUnflushed(s) ==
    /\ Returned(s) /\ sess[s].stream_ended /\ ~sess[s].stop_issued
    /\ sess[s].all_audio_chunks # <<>>
    /\ sess[s].pending_chunks = sess[s].all_audio_chunks

AudioEvents(events) == {i \in DOMAIN events : events[i].kind \in AudioKinds}

----------------------------------------------------------------------------
\* the partial-audio events among the first n events
PartialsUpTo(events, n) == Delivered(SubSeq(events, 1, n), {"partialAudio"})

\* C20: every partial-audio event carries exactly the chunks received since
\* the previous one (together they are the received chunks in order, none
\* twice) and a cumulative figure equal to the length of everything received
\* up to it; the figure never decreases, and the last delivery of a stream
\* that ended carries the length of all received chunks.
C20_CumulativeDuration ==
    \A s \in Sessions :
        sess[s].pc \in {"drain", "afterloop", "join", "returned"} =>
            LET events == sess[s].events
                all == sess[s].all_audio_chunks
                flushed == PartialsUpTo(events, Len(events))
            IN  /\ Len(flushed) <= Len(all)
                /\ flushed = SubSeq(all, 1, Len(flushed))
                /\ \A i \in DOMAIN events :
                       events[i].kind = "partialAudio" =>
                           /\ events[i].audio # <<>>
                           /\ events[i].total = SumLen(PartialsUpTo(events, i))
                /\ \A i, j \in AudioEvents(events) :
                       i < j => events[i].total <= events[j].total
                /\ (Returned(s) /\ AudioEvents(events) # {}) =>
                       \A i \in AudioEvents(events) :
                           (\A j \in AudioEvents(events) : j <= i) =>
                               events[i].total = SumLen(all)

\* two flushes of the drain loop, the remaining buffer and the complete
\* audio, with a figure that grows up to the total
C20_Witness ==
    \E s \in Sessions :
        /\ Returned(s)
        /\ Len(sess[s].events) = 4
        /\ sess[s].events[4].kind = "finalAudio"
        /\ sess[s].events[1].total < sess[s].events[2].total
        /\ sess[s].events[2].total < sess[s].events[3].total
        /\ sess[s].events[3].total = sess[s].events[4].total

----------------------------------------------------------------------------
\* C21: a selection that starts after sessions were assigned to a device
\* (the unit of each is in the device's queue) scores that device with a
\* pending-work count that includes them.
C21_SelectionSeesIncrement ==
    [][\A s \in Sessions :
          Selects(s) =>
              \A g \in gpu_instances :
                  gpu_status[g].queue_length >= gpu_queues[g]]_vars

----------------------------------------------------------------------------
\* the registry is read in this step, by a selection or by a status summary
ReadsRegistry ==
    \/ \E s \in Sessions : Selects(s)
    \/ summary_lines' # summary_lines

\* C22: a selection or a status summary never reads a status of which some
\* measured fields come from the refresh in progress and others from the
\* previous one: what it reads of the device being refreshed is either the
\* status before the refresh or the status after it.
C22_RefreshAtomic ==
    [][(ReadsRegistry /\ monitor_write # NoWrite) =>
          LET g == monitor_write.gpu_id
              after == <<monitor_write.memory_used, gpu_status[g].memory_total,
                         monitor_write.utilization, monitor_write.queue_length>>
          IN  Measurements(gpu_status[g]) \in {monitor_write.before, after}]_vars

----------------------------------------------------------------------------
----------------------------------------------------------------------------
\* C24: a generate call selects a device once, when it enters, and starts
\* its generation thread at most once; a call that has yielded its last
\* event (an error included) yields nothing more, takes no other device
\* and starts no thread: nothing in the manager dispatches it again.
ErrorKinds == {"gpu_error", "input_error", "unexpected_error"}

C24_NoRetry ==
    [][\A s \in Sessions :
          /\ sess[s].pc # "idle" =>
                /\ sess'[s].pc # "idle"
                /\ sess'[s].selected_gpu = sess[s].selected_gpu
          /\ thread'[s].state = "starting" /\ thread[s].state # "starting" =>
                thread[s].state = "none" /\ sess[s].pc = "validated"
          /\ sess[s].pc \in {"returned", "done"} =>
                /\ sess'[s].pc \in {"returned", "done"}
                /\ sess'[s].events = sess[s].events
                /\ \A g \in gpu_instances : gpu_queues'[g] <= gpu_queues[g]
                       \/ \E t \in Sessions \ {s} : Selects(t)]_vars

\* a call that failed on its device and is over while another device of the
\* pool was available to take it
C24_Witness ==
    \E s \in Sessions :
        /\ Terminated(s) /\ sess[s].selected_gpu # None
        /\ Last(sess[s].events).kind \in ErrorKinds
        /\ thread[s].state = "none"
        /\ \E g \in gpu_instances \ {sess[s].selected_gpu} :
               gpu_status[g].is_available

----------------------------------------------------------------------------
\* C25 as stated: a call that ends STOPPED has waited for its generation
\* thread with at most one bounded join.
C25_OneJoin ==
    \A s \in Sessions :
        (sess[s].pc \in {"returned", "done"} /\ sess[s].events # <<>>
         /\ Last(sess[s].events).kind = "stopped") => sess[s].joins <= 1

\* C25: a call that ends STOPPED has ended its stream and waited with
\* bounded joins only: none when stopped before dispatch, one on the
\* post-start poll path, and after the drain loop one, plus a forced end of
\* the streamer and one more bounded join when the thread is still alive.
C25_BoundedJoins ==
    [][\A s \in Sessions :
          (sess[s].pc # "returned" /\ sess'[s].pc = "returned"
           /\ Last(sess'[s].events).kind = "stopped") =>
             \/ /\ sess[s].pc = "validated"
                /\ sess'[s].joins = 0 /\ thread[s].state = "none"
             \/ /\ sess[s].pc = "grace"
                /\ sess'[s].joins = 1 /\ streamer'[s].finished
             \/ /\ sess[s].pc = "join" /\ thread[s].state = "done"
                /\ sess'[s].joins = 1 /\ streamer'[s].finished
             \/ /\ sess[s].pc = "join" /\ thread[s].state # "done"
                /\ sess'[s].joins = 2 /\ streamer'[s].finished]_vars

\* a call stopped in its drain loop whose thread outlived the first join
C25_Witness ==
    \E s \in Sessions :
        /\ Returned(s) /\ Last(sess[s].events).kind = "stopped"
        /\ sess[s].stop_observed > 0
        /\ sess[s].joins = 2 /\ thread[s].state # "done"

----------------------------------------------------------------------------
\* C26: the registry keeps the key set _initialize_gpus gave it, one entry
\* per configured id.  A step that changes an entry's measurements is a
\* refresh of the monitor: it leaves the availability flag and the total
\* memory alone and stores the device's queue size.  A step that changes an
\* availability flag leaves the measurements alone and is either the health
\* check (run by a recovery thread or by a selection that found nothing
\* available) or _handle_gpu_error for the device of a failing call.
HealthCheckStep ==
    \/ \E g \in gpu_instances : recovering'[g] < recovering[g]
    \/ \E s \in Sessions : Selects(s) /\ AvailableSet(gpu_status) = {}

FaultStep(g) ==
    \E s \in Sessions :
        /\ sess[s].selected_gpu = g /\ sess[s].pc # "returned"
        /\ sess'[s].pc = "returned"
        /\ Last(sess'[s].events).kind = "gpu_error"
        /\ recovering'[g] = recovering[g] + 1

C26_RegistryWriters ==
    [][/\ DOMAIN gpu_status' = DOMAIN gpu_status
       /\ DOMAIN gpu_status = Range(target_gpus)
       /\ \A g \in DOMAIN gpu_status :
             /\ Measurements(gpu_status'[g]) # Measurements(gpu_status[g]) =>
                   /\ g \in gpu_instances
                   /\ gpu_status'[g].is_available = gpu_status[g].is_available
                   /\ gpu_status'[g].memory_total = gpu_status[g].memory_total
                   /\ gpu_status'[g].queue_length = gpu_queues[g]
                   /\ UNCHANGED <<sess, recovering, gpu_queues>>
             /\ gpu_status'[g].is_available # gpu_status[g].is_available =>
                   /\ Measurements(gpu_status'[g]) = Measurements(gpu_status[g])
                   /\ \/ /\ HealthCheckStep
                         /\ \A h \in gpu_instances :
                                gpu_status'[h].is_available = gpu_healthy[h]
                      \/ FaultStep(g) /\ ~gpu_status'[g].is_available]_vars

\* a device whose readings the monitor has replaced and whose flag went down
\* in a fault and up again in the recovery thread's health check
C26_Witness ==
    \E s \in Sessions :
        /\ Terminated(s) /\ sess[s].selected_gpu # None
        /\ Last(sess[s].events).kind = "gpu_error"
        /\ recovering[sess[s].selected_gpu] = 0
        /\ gpu_status[sess[s].selected_gpu].is_available
        /\ gpu_status[sess[s].selected_gpu].memory_used = MemTotal
        /\ gpu_status[sess[s].selected_gpu].utilization = 100

----------------------------------------------------------------------------
\* C27: in every registry state every device's memory_usage_percent lies
\* between 0 and 100, and it is 0 for a device whose memory_total is 0.
C27_UsagePercentBounded ==
    \A g \in DOMAIN gpu_status :
        /\ memory_usage_percent(gpu_status[g]) \in 0 .. 100
        /\ gpu_status[g].memory_total = 0 =>
               memory_usage_percent(gpu_status[g]) = 0

\* a device whose initialisation failed beside one the monitor has found
\* half full and fully utilised
C27_Witness ==
    \E g, h \in DOMAIN gpu_status :
        /\ gpu_status[g].memory_total = 0 /\ g \notin gpu_instances
        /\ h \in gpu_instances
        /\ gpu_status[h].memory_used = MemTotal \div 2
        /\ memory_usage_percent(gpu_status[h]) = 50
        /\ gpu_status[h].utilization = 100

----------------------------------------------------------------------------
\* C28: while the stop flag of its instance is set, a call in its drain
\* loop adds no chunk to all_audio_chunks or pending_chunks and yields
\* nothing; the chunk it takes from the stream then makes it leave the loop,
\* and once out of the loop it takes no chunk from the stream any more.
QueuedChunks(st) == SelectSeq(st.queue, LAMBDA c : c # StopSignal)

C28_StopPolledPerChunk ==
    [][\A s \in Sessions :
          /\ (sess[s].pc = "drain"
              /\ inst[sess[s].selected_gpu].stop_generation) =>
                /\ sess'[s].all_audio_chunks = sess[s].all_audio_chunks
                /\ sess'[s].pending_chunks = sess[s].pending_chunks
                /\ sess'[s].events = sess[s].events
                /\ sess'[s].pc \in {"drain", "afterloop"}
                /\ QueuedChunks(streamer'[s]) # QueuedChunks(streamer[s]) =>
                       sess'[s].pc = "afterloop"
          /\ sess[s].pc \in {"afterloop", "join"} =>
                /\ sess'[s].all_audio_chunks = sess[s].all_audio_chunks
                /\ QueuedChunks(streamer'[s]) = QueuedChunks(streamer[s])]_vars

\* a call that met the stop flag on a chunk after it had kept at least one,
\* with a later chunk left in the stream that it will never take
C28_Witness ==
    \E s \in Sessions :
        /\ sess[s].pc = "afterloop" /\ sess[s].stop_observed > 0
        /\ sess[s].all_audio_chunks # <<>>
        /\ QueuedChunks(streamer[s]) # <<>>
        /\ Len(thread[s].produced) =
              Len(sess[s].all_audio_chunks) + 1 + Len(QueuedChunks(streamer[s]))

----------------------------------------------------------------------------
\* C29: a call whose stream was ended by its generation thread at the end
\* of the script, with no stop() issued during the call and at least one
\* chunk received, ends with the complete-audio event, whose audio is every
\* chunk the thread produced, once each, in the order of production.
EndedNaturally(s) ==
    /\ sess[s].stream_ended /\ ~sess[s].stop_issued /\ ~thread[s].raised
    /\ sess[s].has_received_chunks

C29_CompleteAudio ==
    \A s \in Sessions :
        (Returned(s) /\ EndedNaturally(s)) =>
            LET e == Last(sess[s].events)
            IN  /\ e.kind = "finalAudio" /\ e.arity = 4
                /\ e.audio = sess[s].all_audio_chunks
                /\ e.audio = thread[s].produced
                /\ \A i \in DOMAIN e.audio : e.audio[i].seq = i
                /\ e.total = SumLen(thread[s].produced)

\* a call that streamed part of its audio, received three chunks or more
\* and has ended naturally
C29_Witness ==
    \E s \in Sessions :
        /\ Returned(s) /\ EndedNaturally(s)
        /\ Len(sess[s].all_audio_chunks) >= 3
        /\ Len(sess[s].events) >= 3
        /\ sess[s].events[1].kind = "partialAudio"
        /\ sess[s].events[1].audio # sess[s].all_audio_chunks

----------------------------------------------------------------------------
\* C30 as stated: while a call is between its validation and its terminal
\* event, no step of another call clears the stop flag of its instance after
\* a stop() issued during the call, and none puts another call's streamer in
\* the place of its own as the instance's current_streamer.
InFlight(s) == sess[s].pc \in {"validated", "grace", "drain", "afterloop", "join"}

C30_SharedDeviceStop ==
    [][\A s \in Sessions :
          (InFlight(s) /\ sess'[s] = sess[s]) =>
              /\ (sess[s].stop_issued
                  /\ inst[sess[s].selected_gpu].stop_generation) =>
                     inst'[sess[s].selected_gpu].stop_generation
              /\ inst[sess[s].selected_gpu].current_streamer = s =>
                     inst'[sess[s].selected_gpu].current_streamer
                         \notin Sessions \ {s}]_vars

----------------------------------------------------------------------------
\* C31: a call during which stop() was never issued does not end with the
\* stop event, whatever the stop flag of its instance was when it entered:
\* the first statements of its generator clear the flag.
C31_StaleStopIgnored ==
    /\ \A s \in Sessions :
          (sess[s].pc \in {"returned", "done"} /\ ~sess[s].stop_issued) =>
              Last(sess[s].events).kind # "stopped"
    /\ \A s \in Sessions :
          (sess[s].pc = "validated" /\ ~sess[s].stop_issued) =>
              ~inst[sess[s].selected_gpu].stop_generation

\* a call that found the flag of its instance set by a stop() issued when
\* no call was active, ran alone and delivered its complete audio
C31_Witness ==
    \E s \in Sessions :
        /\ Returned(s) /\ sess[s].stale_stop /\ ~sess[s].stop_issued
        /\ Last(sess[s].events).kind = "finalAudio"
        /\ \A t \in Sessions \ {s} : sess[t].pc = "idle"

----------------------------------------------------------------------------
\* C32: in every state the pending-work queue of every device holds one unit
\* for each call that was assigned to the device and whose generator has
\* not finished yet, and nothing else; it is never negative.
C32_CounterCountsSessions ==
    \A g \in DOMAIN gpu_queues :
        /\ gpu_queues[g] >= 0
        /\ gpu_queues[g] = Cardinality(Holders(g))

\* two calls on one device, one of them ended and released, the other past
\* its terminal event with its unit still queued
C32_Witness ==
    \E s, t \in Sessions :
        /\ s # t /\ sess[s].selected_gpu = sess[t].selected_gpu
        /\ Terminated(s) /\ Returned(t)
        /\ sess[s].selected_gpu # None
        /\ gpu_queues[sess[s].selected_gpu] = 1

----------------------------------------------------------------------------
\* C33: every device flagged available has an instance and a queue; a
\* device whose initialisation failed has neither, stays unavailable through
\* every health check and is never the device a call is assigned to.
C33_AvailableHasInstance ==
    /\ DOMAIN gpu_queues = gpu_instances /\ DOMAIN inst = gpu_instances
    /\ \A g \in DOMAIN gpu_status :
          gpu_status[g].is_available => g \in gpu_instances
    /\ \A s \in Sessions :
          sess[s].selected_gpu # None => sess[s].selected_gpu \in gpu_instances

\* a device that failed to initialise is still unavailable after another
\* device went down in a fault and came back in the recovery thread's
\* health check
C33_Witness ==
    \E s \in Sessions, g \in DOMAIN gpu_status :
        /\ g \notin gpu_instances /\ ~gpu_status[g].is_available
        /\ Terminated(s) /\ sess[s].selected_gpu # None
        /\ Last(sess[s].events).kind = "gpu_error"
        /\ recovering[sess[s].selected_gpu] = 0
        /\ gpu_status[sess[s].selected_gpu].is_available

----------------------------------------------------------------------------
\* C34: a call for which select_best_gpu finds no device, even after its
\* health check, yields one error event and nothing else; neither the
\* selection nor any later step of that call changes a pending-work queue,
\* marks a device unavailable or starts a recovery thread.
NoDevice(s) == sess[s].pc \in {"returned", "done"} /\ sess[s].selected_gpu = None

C34_NoDeviceNoEffect ==
    [][\A s \in Sessions :
          /\ (Selects(s) /\ sess'[s].selected_gpu = None) =>
                /\ sess'[s].pc = "returned"
                /\ sess'[s].events = <<StatusEvent("gpu_error", 4)>>
                /\ AvailableSet(gpu_status') = {}
                /\ UNCHANGED <<gpu_queues, recovering, recover_at, inst, thread>>
          /\ (NoDevice(s) /\ sess'[s].pc # sess[s].pc) =>
                /\ sess'[s].pc = "done"
                /\ sess'[s].events = <<StatusEvent("gpu_error", 4)>>
                /\ UNCHANGED <<gpu_status, gpu_queues, recovering, recover_at,
                               inst, thread>>]_vars

\* a call that found no device and is over, while a call that failed on
\* its device still holds its unit of that device's queue
C34_Witness ==
    \E s, t \in Sessions :
        /\ NoDevice(s) /\ Terminated(s)
        /\ Returned(t) /\ sess[t].selected_gpu # None
        /\ Last(sess[t].events).kind = "gpu_error"
        /\ gpu_queues[sess[t].selected_gpu] = 1

----------------------------------------------------------------------------
\* C35 as stated: the recovery thread started for a fault of device g
\* changes the availability flag of no other device; in particular a device
\* whose own recovery thread is still asleep stays unavailable.
C35_RecoveryProbesOwnDevice ==
    [][\A g \in gpu_instances :
          recovering'[g] < recovering[g] =>
              \A h \in DOMAIN gpu_status \ {g} :
                  gpu_status'[h].is_available = gpu_status[h].is_available]_vars

----------------------------------------------------------------------------
\* C36: in a call during which stop() is never issued, the chunks of the
\* partial-audio events, in emission order, followed by the pending buffer,
\* are at every moment the chunks received so far in arrival order; once the
\* loop and the flush of the remainder are over, the partial-audio events
\* alone carry every chunk the thread produced, once each and in order.
C36_PartialsPartition ==
    \A s \in Sessions :
        ~sess[s].stop_issued =>
            LET partials == Delivered(sess[s].events, {"partialAudio"})
            IN  /\ sess[s].pc \in {"drain", "afterloop"} =>
                      partials \o sess[s].pending_chunks = sess[s].all_audio_chunks
                /\ sess[s].pc \in {"join", "returned"} =>
                      /\ partials = sess[s].all_audio_chunks
                      /\ partials = thread[s].produced

\* a call that was never cancelled and delivered three chunks or more in
\* two partial-audio events or more, the first of them with several chunks
C36_Witness ==
    \E s \in Sessions :
        /\ Returned(s) /\ ~sess[s].stop_issued
        /\ Len(sess[s].all_audio_chunks) >= 3
        /\ Len(sess[s].events) >= 3
        /\ sess[s].events[1].kind = "partialAudio"
        /\ Len(sess[s].events[1].audio) >= 2
        /\ sess[s].events[2].kind = "partialAudio"

----------------------------------------------------------------------------
\* C37: the events of a call are partial-audio events followed by at most
\* one other event (complete audio, stop status or error), which is the last
\* event of the call; a call whose generator has yielded its last event or
\* has finished has exactly one such event, and a call that has one yields
\* nothing more.
TerminalEvent(e) == e.kind # "partialAudio"

C37_OneTerminalEventLast ==
    \A s \in Sessions :
        /\ \A i \in DOMAIN sess[s].events :
               TerminalEvent(sess[s].events[i]) => i = Len(sess[s].events)
        /\ sess[s].pc \in {"returned", "done"} <=>
               (sess[s].events # <<>> /\ TerminalEvent(Last(sess[s].events)))

\* a call stopped in its drain loop: a flush, the remainder of the buffer
\* after the stop was observed, then the stop status as its last event
C37_Witness ==
    \E s \in Sessions :
        /\ Terminated(s) /\ sess[s].stop_observed > 1
        /\ Len(sess[s].events) = sess[s].stop_observed + 1
        /\ sess[s].events[sess[s].stop_observed].kind = "partialAudio"
        /\ Last(sess[s].events).kind = "stopped"

----------------------------------------------------------------------------
\* C38: the monitor thread leaves its loop only after shutdown() has set
\* stop_monitoring, and then it does leave it: it finishes the cycle in
\* progress and that cycle's sleep, starts no other cycle, exits, and writes
\* nothing to the registry afterwards.
C38_MonitorStops ==
    /\ [](monitor_pc = "exited" => stop_monitoring)
    /\ stop_monitoring ~> (monitor_pc = "exited")
    /\ [][/\ stop_monitoring /\ monitor_pc' = "cycle" => monitor_pc = "cycle"
          /\ monitor_pc = "exited" =>
                UNCHANGED <<monitor_pc, gpu_status, monitor_sleep>>]_vars

\* shutdown() ran while a cycle was in progress; the thread has refreshed a
\* device, slept and exited
C38_Witness ==
    /\ monitor_pc = "exited" /\ shutdown_at = "cycle"
    /\ monitor_sleep = 5
    /\ \E g \in gpu_instances : gpu_status[g].memory_used = MemTotal

----------------------------------------------------------------------------
\* C39 as stated: once a call has yielded its last event, whatever that
\* event is, and no other call is running on the same instance, the
\* instance's is_generating flag is False and its current_streamer is None.
C39_FlagsClearedAtEnd ==
    \A s \in Sessions :
        (/\ sess[s].pc \in {"returned", "done"}
         /\ sess[s].selected_gpu # None
         /\ \A t \in Sessions \ {s} :
                sess[t].selected_gpu = sess[s].selected_gpu =>
                    sess[t].pc \in {"idle", "done"}) =>
            /\ ~inst[sess[s].selected_gpu].is_generating
            /\ inst[sess[s].selected_gpu].current_streamer = None

====
